---- MODULE Spec2Model ----
(***************************************************************************)
(* Model of the MirorScaner coordination layer: the scan engine            *)
(* (src/scan/scan_engine.py), the axis controllers                         *)
(* (src/hardware/axis_controller.py) and the serial link to the motion     *)
(* controller (src/hardware/stm32_controller.py), together with the camera *)
(* and data-sink collaborators as far as the engine uses them.  Further    *)
(* parts model the calibration service                                     *)
(* (src/calibration/calibration_service.py), the scan planner              *)
(* (src/scan/scan_planner.py) and the mechanical profiles read from        *)
(* configuration (src/config).                                             *)
(*                                                                         *)
(* Every start_scan call that passes its guards is one coroutine; the      *)
(* coroutines are numbered 1..MaxStarts in the order of the calls.  The    *)
(* other operations (pause, resume, stop, set_data_writer, connect,        *)
(* disconnect) are called from the UI thread, and the link's reader thread *)
(* delivers the controller's lines.                                        *)
(***************************************************************************)
EXTENDS Integers, Sequences, FiniteSets, TLC

\* ------------------------------------------------------------------ bounds
\* start_scan calls that pass the guards, in one behaviour
MaxStarts == 2
\* largest number of points the planner returns for the inputs tried
MaxPoints == 2
\* move commands the motion controller has accepted and not yet answered
MaxInflight == 1

Loops == 1..MaxStarts
Axes == {"X", "THETA"}

\* The planner inputs tried: 0 stands for parameters the planner rejects
\* (ValueError), n > 0 for parameters for which it returns n points (the
\* centre point is always emitted, so a returned list is never empty).
PlanInputs == 0..MaxPoints

VARIABLES
    \* --- ScanEngine fields
    isRunning,          \* _is_running
    isPaused,           \* _is_paused
    currentPointIndex,  \* _current_point_index
    totalPoints,        \* _total_points
    writer,             \* _data_writer: attached?, file open?
    \* --- one start_scan coroutine each; its locals are gone when it returns
    started,            \* number of start_scan calls that passed the guards
    pc,                 \* position of the coroutine in _execute_scan_loop
    idx,                \* loop variable i of the for loop
    npts,               \* length of the list the loop enumerates
    tr,                 \* steps done so far for the point in progress
    settled,            \* indices of the points recorded or skipped so far
    fut,                \* the future of the pending move_to_async is done
    orig,               \* original_handler saved by the pending move_to_async
    nofr,               \* points at which get_single_frame returned None (tallied while clean)
    statf,              \* points at which the analysis or the write raised (tallied while clean)
    clean,              \* no stop, other start or writer change since this start
    records,            \* records written to the sink since its header (tallied while clean)
    stopSeen,           \* stop_scan hit this loop: "no", "in_poll" (in its pause poll, engine paused), "stopped"
    \* --- AxisController fields
    axisBuilt,          \* the AxisController of the axis has been constructed
    isCalibrated,       \* _is_calibrated
    \* --- Stm32ControllerService fields and the controller behind it
    linkConnected,      \* is_connected()
    onMovementDone,     \* on_movement_done: 0 None, -1 the closure of a call that has returned, w the closure of w's pending call
    onCalibrationDone,  \* on_calibration_done: "none" or the axis whose handler is installed
    inflight,           \* move commands accepted by the controller and not answered
    \* --- CameraService
    cameraConnected,    \* is_connected()
    \* --- Stm32ControllerService: the reader thread and the other callbacks
    readerAlive,        \* the thread of _read_loop is in its loop
    onHomingDone,       \* on_homing_done: "none" or the axis whose handler is installed
    onDataReceived,     \* on_data_received: 0 None, 1 a listener of the UI, -1 the closure of a call that has returned, 2 the closure of the pending send_command_async
    \* --- AxisController positions
    currentPositionSteps, \* _current_position_steps
    zeroOffsetSteps,      \* _zero_offset_steps
    \* --- one direct move_to_async call per axis controller
    mpc,                \* position of the call: "idle", "sent", "wait"
    mfut,               \* its future is done
    morig,              \* original_handler it saved
    mtarget,            \* local variable steps: the target in steps
    answered,           \* move_done was read after the call wrote its command and before it returned
    \* --- one send_command_async call
    rpc,                \* position of the call: "idle", "wait"
    rreq,               \* the command it sent
    rfut,               \* the result of its future: "none" or the line that completed it
    rorig,              \* original_handler it saved
    \* --- CalibrationService fields
    isCalibrating,      \* _is_calibrating
    calibrationPoints,  \* _calibration_data.points
    svcIsCalibrated,    \* _is_calibrated of the service
    useHomography,      \* _use_homography
    homographyMatrix,   \* _homography_matrix
    linear,             \* _scale_x, _scale_y, _offset_x, _offset_y
    calibrationFile,    \* what save_calibration wrote to the calibration file
    atStart,            \* is_calibrated() and the coefficients when the session in progress or last ended was started
    everFit,            \* a fit has succeeded since construction
    \* --- mechanical profiles read from configuration
    steppers,           \* AppConfig.steppers, as ConfigManager.load returned it
    editorSteppers,     \* ConfigEditor._stepper_configs, as load_stepper_configs_from_cfg returned it
    \* --- the motion controller, as move_to_async called directly meets it
    staleMoves,         \* move commands it has not answered whose call returned by timeout
    \* --- what the step just taken showed to the outside
    ev                  \* outcome of the call, the loop's end or the reader's step just taken

vars == <<isRunning, isPaused, currentPointIndex, totalPoints, writer,
          started, pc, idx, npts, tr, settled, fut, orig, nofr, statf, clean, records,
          stopSeen, axisBuilt, isCalibrated, linkConnected, onMovementDone, onCalibrationDone,
          inflight, cameraConnected,
          readerAlive, onHomingDone, onDataReceived, currentPositionSteps, zeroOffsetSteps,
          mpc, mfut, morig, mtarget, answered, rpc, rreq, rfut, rorig,
          isCalibrating, calibrationPoints, svcIsCalibrated, useHomography, homographyMatrix,
          linear, calibrationFile, atStart, everFit, steppers, editorSteppers, staleMoves, ev>>

engineVars == <<isRunning, isPaused, currentPointIndex, totalPoints, writer>>
loopVars == <<started, pc, idx, npts, tr, settled, fut, orig, nofr, statf, clean, records, stopSeen>>
axisVars == <<axisBuilt, isCalibrated>>
linkVars == <<linkConnected, onMovementDone, onCalibrationDone, inflight>>
posVars == <<currentPositionSteps, zeroOffsetSteps>>
callVars == <<mpc, mfut, morig, mtarget, answered>>
replyVars == <<onDataReceived, rpc, rreq, rfut, rorig>>
protoVars == <<readerAlive, onHomingDone, posVars, callVars, replyVars>>
modelVars == <<svcIsCalibrated, useHomography, homographyMatrix, linear>>
calibVars == <<isCalibrating, calibrationPoints, modelVars, calibrationFile, atStart, everFit>>
configVars == <<steppers, editorSteppers>>
restVars == <<calibVars, configVars, staleMoves>>
machineVars == <<engineVars, loopVars, axisVars, linkVars, cameraConnected, protoVars,
                 staleMoves>>

\* The steps of one point, in the order the loop body performs them.
PointSteps == <<"x_send", "x_ret", "t_send", "t_ret", "frame", "write">>

NoWriter == [attached |-> FALSE, open |-> FALSE]
NoEv == [op |-> "none"]

\* The mechanical profile of a stepper: the fields the conversions read.
\* Lengths are whole millimetres in the model.
DefaultProfile == [microstep |-> 4, rotate_steps |-> 200, pitch |-> 8]

\* The calibration service after construction: no matrix, the linear
\* coefficients at their defaults.
\* An offset is kept as the fraction <<numerator, denominator>>, a scale as the
\* fraction <<numerator, denominator>> of its square.
NoMatrix == <<>>
DefaultLinear == [scale_x |-> <<1, 1>>, scale_y |-> <<1, 1>>, offset_x |-> <<0, 1>>, offset_y |-> <<0, 1>>]
NoFile == [exists |-> FALSE]
NotCalibrated == [out |-> "not_calibrated", coeff |-> <<>>, at |-> <<>>]

Init ==
    /\ isRunning = FALSE
    /\ isPaused = FALSE
    /\ currentPointIndex = 0
    /\ totalPoints = 0
    /\ writer = NoWriter
    /\ started = 0
    /\ pc = [w \in Loops |-> "idle"]
    /\ idx = [w \in Loops |-> 0]
    /\ npts = [w \in Loops |-> 0]
    /\ tr = [w \in Loops |-> <<>>]
    /\ settled = [w \in Loops |-> {}]
    /\ fut = [w \in Loops |-> FALSE]
    /\ orig = [w \in Loops |-> 0]
    /\ nofr = [w \in Loops |-> 0]
    /\ statf = [w \in Loops |-> 0]
    /\ clean = [w \in Loops |-> FALSE]
    /\ records = 0
    /\ stopSeen = [w \in Loops |-> "no"]
    /\ axisBuilt = [a \in Axes |-> FALSE]
    /\ isCalibrated = [a \in Axes |-> FALSE]
    /\ linkConnected = FALSE
    /\ onMovementDone = 0
    /\ onCalibrationDone = "none"
    /\ inflight = 0
    /\ cameraConnected = FALSE
    /\ readerAlive = FALSE
    /\ onHomingDone = "none"
    /\ onDataReceived = 0
    /\ currentPositionSteps = [a \in Axes |-> 0]
    /\ zeroOffsetSteps = [a \in Axes |-> 0]
    /\ mpc = [a \in Axes |-> "idle"]
    /\ mfut = [a \in Axes |-> FALSE]
    /\ morig = [a \in Axes |-> 0]
    /\ mtarget = [a \in Axes |-> 0]
    /\ answered = [a \in Axes |-> FALSE]
    /\ rpc = "idle"
    /\ rreq = "none"
    /\ rfut = "none"
    /\ rorig = 0
    /\ isCalibrating = FALSE
    /\ calibrationPoints = <<>>
    /\ svcIsCalibrated = FALSE
    /\ useHomography = FALSE
    /\ homographyMatrix = NoMatrix
    /\ linear = DefaultLinear
    /\ calibrationFile = NoFile
    /\ atStart = [calibrated |-> FALSE, w2i |-> [at \in {} |-> NotCalibrated],
                  i2w |-> [at \in {} |-> NotCalibrated]]
    /\ everFit = FALSE
    /\ steppers = [a \in Axes |-> DefaultProfile]
    /\ editorSteppers = <<>>
    /\ staleMoves = 0
    /\ ev = NoEv

\* ------------------------------------------------------- set-up operations
\* AxisController.__init__: the new controller subscribes itself to the
\* link's calibration and homing callbacks, replacing whatever was
\* installed.  The application constructs the X axis first, then the THETA
\* axis.
ConstructAxis(a) ==
    /\ ~axisBuilt[a]
    /\ a = "THETA" => axisBuilt["X"]
    /\ axisBuilt' = [axisBuilt EXCEPT ![a] = TRUE]
    /\ isCalibrated' = [isCalibrated EXCEPT ![a] = FALSE]
    /\ onCalibrationDone' = a
    /\ ev' = NoEv
    /\ UNCHANGED <<engineVars, loopVars, linkConnected, onMovementDone, inflight,
                   cameraConnected>>
    /\ onHomingDone' = a
    /\ UNCHANGED <<readerAlive, posVars, callVars, replyVars>>
    /\ UNCHANGED restVars

\* ScanEngine.__init__ needs both axis controllers.
EngineBuilt == \A a \in Axes : axisBuilt[a]

\* The link enters its connected state: _is_connected and _running are set
\* and the reader thread is started (the last statements of connect).  The
\* axis controllers and the scan engine only ever ask is_connected(); they
\* are checked here against a link that can be in that state.  How connect
\* itself gets there is the subject of Connect below.
LinkConnect ==
    /\ ~linkConnected
    /\ linkConnected' = TRUE
    /\ ev' = NoEv
    /\ UNCHANGED <<engineVars, loopVars, axisVars, onMovementDone, onCalibrationDone,
                   inflight, cameraConnected>>
    /\ readerAlive' = TRUE
    /\ UNCHANGED <<onHomingDone, posVars, callVars, replyVars>>
    /\ UNCHANGED restVars

\* Stm32ControllerService.disconnect: the reader is stopped and joined, the
\* port closed.  The callbacks stay as they are.
LinkDisconnect ==
    /\ linkConnected
    /\ linkConnected' = FALSE
    /\ ev' = NoEv
    /\ UNCHANGED <<engineVars, loopVars, axisVars, onMovementDone, onCalibrationDone,
                   inflight, cameraConnected>>
    /\ readerAlive' = FALSE
    /\ UNCHANGED <<onHomingDone, posVars, callVars, replyVars>>
    /\ UNCHANGED restVars

\* The reader thread receives calibration_done and calls the installed
\* handler, AxisController._on_calibration_done of one axis.
CalibrationDone ==
    /\ linkConnected
    /\ onCalibrationDone # "none"
    /\ ~isCalibrated[onCalibrationDone]
    /\ isCalibrated' = [isCalibrated EXCEPT ![onCalibrationDone] = TRUE]
    /\ ev' = NoEv
    /\ UNCHANGED <<engineVars, loopVars, axisBuilt, linkVars, cameraConnected>>
    /\ UNCHANGED protoVars
    /\ UNCHANGED restVars

CameraConnect ==
    /\ ~cameraConnected
    /\ cameraConnected' = TRUE
    /\ ev' = NoEv
    /\ UNCHANGED <<engineVars, loopVars, axisVars, linkVars>>
    /\ UNCHANGED protoVars
    /\ UNCHANGED restVars

CameraDisconnect ==
    /\ cameraConnected
    /\ cameraConnected' = FALSE
    /\ ev' = NoEv
    /\ UNCHANGED <<engineVars, loopVars, axisVars, linkVars>>
    /\ UNCHANGED protoVars
    /\ UNCHANGED restVars

\* Loops that have been started and have not returned yet.
Active(w) == pc[w] \notin {"idle", "done"}

\* The running scan is disturbed: its tallies are given up.
Disturb ==
    /\ clean' = [w \in Loops |-> FALSE]
    /\ nofr' = [w \in Loops |-> 0]
    /\ statf' = [w \in Loops |-> 0]
    /\ records' = 0

\* ScanEngine.set_data_writer: a new writer, its file not yet opened.
SetDataWriter ==
    /\ EngineBuilt
    /\ writer' = [attached |-> TRUE, open |-> FALSE]
    /\ Disturb
    /\ ev' = NoEv
    /\ UNCHANGED <<isRunning, isPaused, currentPointIndex, totalPoints,
                   started, pc, idx, npts, tr, settled, fut, orig, stopSeen,
                   axisVars, linkVars, cameraConnected>>
    /\ UNCHANGED protoVars
    /\ UNCHANGED restVars

\* ----------------------------------------------------- ScanEngine.start_scan
PreconditionFailures == {"already_running", "not_calibrated", "no_camera", "no_writer"}

\* start_scan without its last guard, the check that a sink is attached.
StartOutcome_NoSinkGuard(p, headerOk) ==
    IF isRunning THEN "already_running"
    ELSE IF ~(isCalibrated["X"] /\ isCalibrated["THETA"]) THEN "not_calibrated"
    ELSE IF ~cameraConnected THEN "no_camera"
    ELSE IF p = 0 THEN "plan_error"
    ELSE IF ~headerOk THEN "header_error"
    ELSE "ok"

\* The guards of start_scan in the order of the code, then the planner call
\* and write_header, each of which may raise inside the try block.
StartOutcome(p, headerOk) ==
    IF isRunning THEN "already_running"
    ELSE IF ~(isCalibrated["X"] /\ isCalibrated["THETA"]) THEN "not_calibrated"
    ELSE IF ~cameraConnected THEN "no_camera"
    ELSE IF ~writer.attached THEN "no_writer"
    ELSE IF p = 0 THEN "plan_error"
    ELSE IF ~headerOk THEN "header_error"
    ELSE "ok"

\* The engine callbacks a start_scan call with the given outcome invokes.
StartNotes(o) ==
    IF o = "ok" THEN {"started"}
    ELSE IF o \in PreconditionFailures THEN {}
    ELSE {"error"}

\* start_scan up to the call of _execute_scan_loop.  p is the planner input,
\* headerOk tells whether the sink can open its file.
StartScan(p, headerOk) ==
    /\ EngineBuilt
    /\ started < MaxStarts
    /\ LET w == started + 1
           o == StartOutcome(p, headerOk)
       IN  /\ ev' = [op |-> "start", out |-> o, notes |-> StartNotes(o)]
           /\ IF o \in PreconditionFailures
              THEN UNCHANGED <<engineVars, started, pc, npts, clean, nofr, statf, records>>
              ELSE IF o = "plan_error"
              THEN /\ isRunning' = FALSE
                   /\ started' = w
                   /\ pc' = [pc EXCEPT ![w] = "done"]
                   /\ UNCHANGED <<isPaused, currentPointIndex, totalPoints, writer,
                                  npts, clean, nofr, statf, records>>
              ELSE /\ totalPoints' = p
                   /\ currentPointIndex' = 0
                   /\ isPaused' = FALSE
                   /\ isRunning' = (o = "ok")
                   /\ writer' = [attached |-> TRUE, open |-> (o = "ok")]
                   /\ started' = w
                   /\ pc' = [pc EXCEPT ![w] = IF o = "ok" THEN "loop_top" ELSE "done"]
                   /\ npts' = [npts EXCEPT ![w] = IF o = "ok" THEN p ELSE 0]
                   /\ clean' = [v \in Loops |->
                                  v = w /\ o = "ok" /\ \A u \in Loops : ~Active(u)]
                   /\ nofr' = [v \in Loops |-> 0]
                   /\ statf' = [v \in Loops |-> 0]
                   /\ records' = 0
    /\ UNCHANGED <<idx, tr, settled, fut, orig, stopSeen,
                   axisVars, linkVars, cameraConnected>>
    /\ UNCHANGED protoVars
    /\ UNCHANGED restVars

\* ----------------------------------------------- ScanEngine._execute_scan_loop
\* A loop body that begins a point with the rotary move.
AfterBegin_RotaryFirst == "t_call"

\* The order of the loop body: what follows the start of a point, the return
\* of the linear move and the return of the rotary move.
AfterBegin == "x_call"
AfterX == "t_call"
AfterTheta == "delay"

\* A loop that passes over one point on its way to the next.
NextIndex_SkipOne(i) == i + 2

\* The loop variable of the next iteration.
NextIndex(i) == i + 1

\* What the end of loop w shows: how it ended and why, and the loop's tallies.
EndEv(w, out, cause) ==
    [op |-> "end", loop |-> w, out |-> out, cause |-> cause,
     notes |-> IF out = "finished" THEN {"finished"} ELSE {"error"},
     n |-> npts[w], visited |-> idx[w], nofr |-> nofr[w], statf |-> statf[w],
     records |-> records, clean |-> clean[w], stopSeen |-> stopSeen[w]]

\* The coroutine returns or raises: its locals are gone.
Return(w) ==
    /\ pc' = [pc EXCEPT ![w] = "done"]
    /\ idx' = [idx EXCEPT ![w] = 0]
    /\ npts' = [npts EXCEPT ![w] = 0]
    /\ tr' = [tr EXCEPT ![w] = <<>>]
    /\ settled' = [settled EXCEPT ![w] = {}]
    /\ fut' = [fut EXCEPT ![w] = FALSE]
    /\ nofr' = [nofr EXCEPT ![w] = 0]
    /\ statf' = [statf EXCEPT ![w] = 0]
    /\ clean' = [clean EXCEPT ![w] = FALSE]
    /\ stopSeen' = [stopSeen EXCEPT ![w] = "no"]

\* A loop without the finally block: the sink stays as it is.
ClosedWriter_LeftOpen == writer

\* The sink after the finally block of the loop: closed.
ClosedWriter == [writer EXCEPT !.open = FALSE]

\* The loop ends: the for loop is exhausted or left by break.  _is_running is
\* cleared, on_scan_finished is called and the finally block closes the sink.
Finish(w) ==
    /\ isRunning' = FALSE
    /\ writer' = ClosedWriter
    /\ ev' = EndEv(w, "finished", IF idx[w] < npts[w] THEN "break" ELSE "exhausted")
    /\ Return(w)
    /\ UNCHANGED <<isPaused, currentPointIndex, totalPoints>>

\* An exception leaves the loop body: the except block of the loop and then
\* the except block of start_scan each clear _is_running and call on_error,
\* the finally block closes the sink, and start_scan raises.
Fail(w, cause) ==
    /\ isRunning' = FALSE
    /\ writer' = ClosedWriter
    /\ ev' = EndEv(w, "error", cause)
    /\ Return(w)
    /\ UNCHANGED <<isPaused, currentPointIndex, totalPoints>>

\* Top of the for loop: next element or end, then the check of _is_running.
LoopTop(w) ==
    /\ pc[w] = "loop_top"
    /\ IF idx[w] < npts[w] /\ isRunning
       THEN /\ pc' = [pc EXCEPT ![w] = "pause_poll"]
            /\ ev' = NoEv
            /\ UNCHANGED <<engineVars, idx, npts, tr, settled, fut, nofr, statf, clean,
                           stopSeen>>
       ELSE Finish(w)
    /\ UNCHANGED <<started, orig, records, axisVars, linkVars, cameraConnected>>
    /\ UNCHANGED protoVars
    /\ UNCHANGED restVars

\* A poll that does not look at the flag.
PollEnds_Regardless == TRUE

\* while self._is_paused: the poll goes on until the flag is clear.
PollEnds == ~isPaused

\* while self._is_paused: sleep.  Once the flag is clear the point begins:
\* the cursor is set and on_progress(i, total) is called, before the moves
\* of the point.
PausePoll(w) ==
    /\ pc[w] = "pause_poll"
    /\ PollEnds
    /\ currentPointIndex' = idx[w]
    /\ pc' = [pc EXCEPT ![w] = AfterBegin]
    /\ tr' = [tr EXCEPT ![w] = <<>>]
    /\ ev' = [op |-> "progress", loop |-> w, index |-> idx[w], total |-> totalPoints,
              notes |-> {"progress"}, settled |-> settled[w]]
    /\ UNCHANGED <<isRunning, isPaused, totalPoints, writer,
                   started, idx, npts, settled, fut, orig, nofr, statf, clean, records,
                   stopSeen, axisVars, linkVars, cameraConnected>>
    /\ UNCHANGED protoVars
    /\ UNCHANGED restVars

CallPc(a) == IF a = "X" THEN "x_call" ELSE "t_call"
SentPc(a) == IF a = "X" THEN "x_sent" ELSE "t_sent"
WaitPc(a) == IF a = "X" THEN "x_wait" ELSE "t_wait"
SendTag(a) == IF a = "X" THEN "x_send" ELSE "t_send"
RetTag(a) == IF a = "X" THEN "x_ret" ELSE "t_ret"

\* The controller accepts one more move command.  It answers at most
\* MaxInflight of the commands it holds; what exceeds that is never answered.
Accepted(n) == IF n < MaxInflight THEN n + 1 ELSE n

\* AxisController.move_to_async, first part: the connection check and the
\* move command written to the link.  Not connected: the exception leaves
\* the loop body.
MoveCall(w, a) ==
    /\ pc[w] = CallPc(a)
    /\ IF linkConnected
       THEN /\ inflight' = Accepted(inflight)
            /\ tr' = [tr EXCEPT ![w] = Append(@, SendTag(a))]
            /\ pc' = [pc EXCEPT ![w] = SentPc(a)]
            /\ ev' = NoEv
            /\ UNCHANGED <<engineVars, idx, npts, settled, fut, nofr, statf, clean,
                           stopSeen>>
       ELSE /\ Fail(w, "move")
            /\ UNCHANGED inflight
    /\ UNCHANGED <<started, orig, records, axisVars, linkConnected, onMovementDone,
                   onCalibrationDone, cameraConnected>>
    /\ UNCHANGED protoVars
    /\ UNCHANGED restVars

\* move_to_async, second part: a new future, the installed handler is saved
\* and replaced by the closure that completes the future.
MoveInstall(w, a) ==
    /\ pc[w] = SentPc(a)
    /\ fut' = [fut EXCEPT ![w] = FALSE]
    /\ orig' = [orig EXCEPT ![w] = onMovementDone]
    /\ onMovementDone' = w
    /\ pc' = [pc EXCEPT ![w] = WaitPc(a)]
    /\ ev' = NoEv
    /\ UNCHANGED <<engineVars, started, idx, npts, tr, settled, nofr, statf, clean, records,
                   stopSeen,
                   axisVars, linkConnected, onCalibrationDone, inflight,
                   cameraConnected>>
    /\ UNCHANGED protoVars
    /\ UNCHANGED restVars

\* A loop that gives the point up when a move returned False.
AfterMoveResult_Inspected(a, result) ==
    IF ~result THEN "loop_top" ELSE IF a = "X" THEN AfterX ELSE AfterTheta

\* What the loop does with the value move_to_async returned: the await is a
\* statement of its own and the value is dropped.
AfterMoveResult(a, result) == IF a = "X" THEN AfterX ELSE AfterTheta

\* move_to_async, third part: wait_for returns because the future is done or
\* because the timeout elapsed; the finally block puts the saved handler
\* back.  The closure of the call that returns is dead from now on: its
\* future is done or cancelled.
MoveReturn(w, a) ==
    /\ pc[w] = WaitPc(a)
    /\ onMovementDone' = orig[w]
    /\ orig' = [v \in Loops |-> IF v = w THEN 0 ELSE IF orig[v] = w THEN -1 ELSE orig[v]]
    /\ fut' = [fut EXCEPT ![w] = FALSE]
    /\ tr' = [tr EXCEPT ![w] = Append(@, RetTag(a))]
    /\ pc' = [pc EXCEPT ![w] = AfterMoveResult(a, fut[w])]
    /\ ev' = NoEv
    /\ UNCHANGED <<engineVars, started, idx, npts, settled, nofr, statf, clean, records,
                   stopSeen,
                   axisVars, linkConnected, onCalibrationDone, inflight,
                   cameraConnected>>
    /\ UNCHANGED protoVars
    /\ UNCHANGED restVars

\* After the stabilisation delay: CameraService.get_single_frame.  It raises
\* when the camera is not connected, else it returns a frame or None; None
\* skips the point.
Capture(w, gotFrame) ==
    /\ pc[w] = "delay"
    /\ IF ~cameraConnected
       THEN Fail(w, "frame")
       ELSE /\ IF gotFrame
               THEN /\ tr' = [tr EXCEPT ![w] = Append(@, "frame")]
                    /\ pc' = [pc EXCEPT ![w] = "analyze"]
                    /\ UNCHANGED <<idx, settled, nofr>>
               ELSE /\ nofr' = [nofr EXCEPT ![w] = IF clean[w] THEN @ + 1 ELSE @]
                    /\ settled' = [settled EXCEPT ![w] = @ \cup {idx[w]}]
                    /\ idx' = [idx EXCEPT ![w] = NextIndex(@)]
                    /\ pc' = [pc EXCEPT ![w] = "loop_top"]
                    /\ UNCHANGED tr
            /\ ev' = NoEv
            /\ UNCHANGED <<engineVars, npts, fut, statf, clean, stopSeen>>
    /\ UNCHANGED <<started, orig, records, axisVars, linkVars, cameraConnected>>
    /\ UNCHANGED protoVars
    /\ UNCHANGED restVars

\* A write_data that drops the record.
RecordWritten_Dropped(r) == r

\* ScanDataWriter.write_data on an open file: one more record in the file.
RecordWritten(r) == r + 1

\* The frame is there: get_min_max_temperature_in_roi and write_data inside
\* the inner try.  write_data raises when the sink's file is not open.  Any
\* exception here is logged and the point is skipped.
Analyze(w, statsOk) ==
    /\ pc[w] = "analyze"
    /\ IF statsOk /\ writer.open
       THEN /\ records' = IF clean[w] THEN RecordWritten(records) ELSE records
            /\ tr' = [tr EXCEPT ![w] = Append(@, "write")]
            /\ UNCHANGED statf
       ELSE /\ statf' = [statf EXCEPT ![w] = IF clean[w] THEN @ + 1 ELSE @]
            /\ UNCHANGED <<records, tr>>
    /\ settled' = [settled EXCEPT ![w] = @ \cup {idx[w]}]
    /\ idx' = [idx EXCEPT ![w] = NextIndex(@)]
    /\ pc' = [pc EXCEPT ![w] = "loop_top"]
    /\ ev' = NoEv
    /\ UNCHANGED <<engineVars, started, npts, fut, orig, nofr, clean, stopSeen,
                   axisVars, linkVars, cameraConnected>>
    /\ UNCHANGED protoVars
    /\ UNCHANGED restVars

\* --------------------------------------------- pause_scan, resume_scan, stop_scan
\* A pause_scan that does not look at the paused flag.
CanPause_AnyRunning == isRunning

\* pause_scan and resume_scan may be called in any state; outside their
\* guard they do nothing and call nothing.
CanPause == isRunning /\ ~isPaused

CanResume == isRunning /\ isPaused

PauseScan ==
    /\ EngineBuilt
    /\ isPaused' = IF CanPause THEN TRUE ELSE isPaused
    /\ ev' = [op |-> "pause", notes |-> IF CanPause THEN {"paused"} ELSE {}]
    /\ UNCHANGED <<isRunning, currentPointIndex, totalPoints, writer,
                   loopVars, axisVars, linkVars, cameraConnected>>
    /\ UNCHANGED protoVars
    /\ UNCHANGED restVars

ResumeScan ==
    /\ EngineBuilt
    /\ isPaused' = IF CanResume THEN FALSE ELSE isPaused
    /\ ev' = [op |-> "resume", notes |-> IF CanResume THEN {"resumed"} ELSE {}]
    /\ UNCHANGED <<isRunning, currentPointIndex, totalPoints, writer,
                   loopVars, axisVars, linkVars, cameraConnected>>
    /\ UNCHANGED protoVars
    /\ UNCHANGED restVars

\* The emergency_stop calls stop_scan makes: both are inside one try block,
\* so THETA's is reached only if X's did not raise; emergency_stop raises
\* when the link is not connected.
EstopsInvoked == IF linkConnected THEN {"X", "THETA"} ELSE {"X"}

StopScan ==
    /\ EngineBuilt
    /\ isRunning
    /\ isRunning' = FALSE
    /\ isPaused' = FALSE
    /\ ev' = [op |-> "stop", notes |-> {"stopped"},
              estops |-> [a \in Axes |-> IF a \in EstopsInvoked THEN 1 ELSE 0]]
    /\ stopSeen' = [w \in Loops |->
                      IF ~Active(w) THEN stopSeen[w]
                      ELSE IF isPaused /\ pc[w] = "pause_poll" THEN "in_poll"
                      ELSE "stopped"]
    /\ Disturb
    /\ UNCHANGED <<currentPointIndex, totalPoints, writer,
                   started, pc, idx, npts, tr, settled, fut, orig,
                   axisVars, linkVars, cameraConnected>>
    /\ UNCHANGED protoVars
    /\ UNCHANGED restVars

\* ------------------------------------------------- the controller's answers
\* The reader thread receives move_done: _handle_move_done calls the
\* installed handler, which completes its future unless that is done.
MoveDone ==
    /\ linkConnected
    /\ inflight > 0
    /\ inflight' = inflight - 1
    /\ fut' = [w \in Loops |-> fut[w] \/ (onMovementDone = w /\ pc[w] \in {"x_wait", "t_wait"})]
    /\ ev' = NoEv
    /\ UNCHANGED <<engineVars, started, pc, idx, npts, tr, settled, orig, nofr, statf, clean,
                   records, stopSeen, axisVars, linkConnected, onMovementDone, onCalibrationDone,
                   cameraConnected>>
    /\ UNCHANGED protoVars
    /\ UNCHANGED restVars

\* The controller never answers a move command (aborted, or the answer lost).
MoveLost ==
    /\ inflight > 0
    /\ inflight' = inflight - 1
    /\ ev' = NoEv
    /\ UNCHANGED <<engineVars, loopVars, axisVars, linkConnected, onMovementDone,
                   onCalibrationDone, cameraConnected>>
    /\ UNCHANGED protoVars
    /\ UNCHANGED restVars

Next ==
    \/ \E a \in Axes : ConstructAxis(a)
    \/ LinkConnect
    \/ LinkDisconnect
    \/ CalibrationDone
    \/ CameraConnect
    \/ CameraDisconnect
    \/ SetDataWriter
    \/ \E p \in PlanInputs, headerOk \in BOOLEAN : StartScan(p, headerOk)
    \/ \E w \in Loops : LoopTop(w)
    \/ \E w \in Loops : PausePoll(w)
    \/ \E w \in Loops, a \in Axes : MoveCall(w, a)
    \/ \E w \in Loops, a \in Axes : MoveInstall(w, a)
    \/ \E w \in Loops, a \in Axes : MoveReturn(w, a)
    \/ \E w \in Loops, f \in BOOLEAN : Capture(w, f)
    \/ \E w \in Loops, s \in BOOLEAN : Analyze(w, s)
    \/ PauseScan
    \/ ResumeScan
    \/ StopScan
    \/ MoveDone
    \/ MoveLost

Spec == Init /\ [][Next]_vars

\* ======================================================================
\* The link and the axis controllers under direct calls
\* ======================================================================
\* Largest target of a direct move, in steps, and largest position at which
\* set_zero is tried.
MaxTarget == 2
MaxOffset == 2
\* move commands left unanswered by calls that timed out
MaxStale == 1

Targets == 1..MaxTarget

\* The identity of the closure on_move_done of the pending call on axis a.
AxisId(a) == IF a = "X" THEN 1 ELSE 2

\* The lines the controller sends, by the prefix _process_response looks up.
Lines == {"id:", "fw:", "error:", "calibration_done", "homing_done:X", "homing_done:THETA",
          "move_done"}
Requests == {"getid", "getver"}
BothIds == {"id:", "fw:"}

\* _try_handshake_once: _send_command_internal raises unless is_connected();
\* then the answers are looked for in _response_buffer, which only the
\* reader thread fills.
TryHandshakeOnce(have, ans) ==
    IF ~linkConnected THEN [raised |-> TRUE, have |-> have]
    ELSE [raised |-> FALSE, have |-> IF readerAlive THEN have \cup ans ELSE have]

\* _perform_handshake: one attempt, one retry; an exception gives False.
PerformHandshake(first, retry) ==
    LET r1 == TryHandshakeOnce({}, first)
        r2 == TryHandshakeOnce(r1.have, retry)
    IN  IF r1.raised THEN FALSE
        ELSE IF r1.have = BothIds THEN TRUE
        ELSE ~r2.raised /\ r2.have = BothIds

\* Stm32ControllerService.connect on an open port.  first and retry are the
\* identifier lines the controller would send in answer to each attempt.
Connect(first, retry) ==
    /\ IF linkConnected
       THEN /\ ev' = [op |-> "connect", out |-> "already", first |-> first, retry |-> retry]
            /\ UNCHANGED <<linkConnected, readerAlive>>
       ELSE LET ok == PerformHandshake(first, retry)
            IN  /\ linkConnected' = ok
                /\ readerAlive' = ok
                /\ ev' = [op |-> "connect", out |-> IF ok THEN "ok" ELSE "failed",
                          first |-> first, retry |-> retry]
    /\ UNCHANGED <<engineVars, loopVars, axisVars, onMovementDone, onCalibrationDone, inflight,
                   cameraConnected, onHomingDone, posVars, callVars, replyVars>>
    /\ UNCHANGED restVars

\* _read_loop, first part: the line is handed to on_data_received.  The
\* closure of a pending send_command_async completes its future with it.
Deliver(l) == IF onDataReceived = 2 /\ rfut = "none" THEN l ELSE rfut

\* _read_loop reads a line: on_data_received, then the handler that
\* _process_response finds for it.  _handle_move_done calls the installed
\* on_movement_done, which completes the future of the call whose closure
\* it is.  The controller answers its commands in the order it received
\* them: while it holds commands of calls that timed out, a move_done is the
\* answer to the oldest of them.
ReadLine(l) ==
    /\ linkConnected /\ readerAlive
    /\ rfut' = Deliver(l)
    /\ mfut' = IF l = "move_done"
               THEN [b \in Axes |-> mfut[b] \/ (onMovementDone = AxisId(b) /\ mpc[b] = "wait")]
               ELSE mfut
    /\ answered' = IF l = "move_done"
                   THEN [b \in Axes |-> answered[b] \/ mpc[b] \in {"sent", "wait"}]
                   ELSE answered
    /\ isCalibrated' = IF l = "calibration_done" /\ onCalibrationDone # "none"
                       THEN [isCalibrated EXCEPT ![onCalibrationDone] = TRUE]
                       ELSE isCalibrated
    /\ currentPositionSteps' =
          IF l = "homing_done:X" /\ onHomingDone = "X"
          THEN [currentPositionSteps EXCEPT !["X"] = 0]
          ELSE IF l = "homing_done:THETA" /\ onHomingDone = "THETA"
          THEN [currentPositionSteps EXCEPT !["THETA"] = 0]
          ELSE currentPositionSteps
    /\ ev' = [op |-> "line", line |-> l, notes |-> IF l = "error:" THEN {"error"} ELSE {}]
    /\ UNCHANGED <<engineVars, loopVars, axisBuilt, linkVars, cameraConnected, readerAlive,
                   onHomingDone, zeroOffsetSteps, mpc, morig, mtarget, onDataReceived, rpc, rreq,
                   rorig>>
    /\ staleMoves' = IF l = "move_done" /\ staleMoves > 0 THEN staleMoves - 1 ELSE staleMoves
    /\ UNCHANGED <<calibVars, configVars>>

\* A reader that goes on reading after an exception.
ReaderAfterError_KeepsReading == TRUE

\* The reader after an exception in its loop: the loop is left.
ReaderAfterError == FALSE

\* _read_loop: reading raises (the port is gone).  The error goes to on_error
\* and the loop ends; _is_connected is left as it is.
ReadError ==
    /\ linkConnected /\ readerAlive
    /\ readerAlive' = ReaderAfterError
    /\ ev' = [op |-> "reader_error", notes |-> {"error"}]
    /\ UNCHANGED <<engineVars, loopVars, axisVars, linkVars, cameraConnected,
                   onHomingDone, posVars, callVars, replyVars>>
    /\ UNCHANGED restVars

\* AxisController.move_to_async called directly, first part: the connection
\* check, the conversion to steps and the move command written to the link.
\* The caller awaits one move before it asks for the next.
MoveToAsyncSend(a, t) ==
    /\ axisBuilt[a]
    /\ \A b \in Axes : mpc[b] = "idle"
    /\ IF linkConnected
       THEN /\ mpc' = [mpc EXCEPT ![a] = "sent"]
            /\ mtarget' = [mtarget EXCEPT ![a] = t]
            /\ mfut' = [mfut EXCEPT ![a] = FALSE]
            /\ answered' = [answered EXCEPT ![a] = FALSE]
            /\ ev' = NoEv
       ELSE /\ ev' = [op |-> "move", axis |-> a, out |-> "raised"]
            /\ UNCHANGED <<mpc, mtarget, mfut, answered>>
    /\ UNCHANGED <<engineVars, loopVars, axisVars, linkVars, cameraConnected, readerAlive,
                   onHomingDone, posVars, morig, replyVars>>
    /\ UNCHANGED restVars

\* move_to_async, second part: the future is created, the installed handler
\* saved and replaced by the closure on_move_done.
MoveToAsyncInstall(a) ==
    /\ mpc[a] = "sent"
    /\ mfut' = [mfut EXCEPT ![a] = FALSE]
    /\ morig' = [morig EXCEPT ![a] = onMovementDone]
    /\ onMovementDone' = AxisId(a)
    /\ mpc' = [mpc EXCEPT ![a] = "wait"]
    /\ ev' = NoEv
    /\ UNCHANGED <<engineVars, loopVars, axisVars, linkConnected, onCalibrationDone, inflight,
                   cameraConnected, readerAlive, onHomingDone, posVars, mtarget, answered,
                   replyVars>>
    /\ UNCHANGED restVars

\* A move that records its target without the zero offset.
ReachedPosition_NoOffset(steps, offset) == steps

\* The position recorded by a move that succeeded.
ReachedPosition(steps, offset) == steps + offset

\* The commands move_to_async writes to the link when its wait times out.
TimeoutCommands == {}

\* One more move command is left unanswered behind a call that returned.
\* The count is kept up to MaxStale; what exceeds that is never answered.
Unanswered(n) == IF n < MaxStale THEN n + 1 ELSE n

\* move_to_async, third part: wait_for returns with the future done (True) or
\* by timeout (False); the finally block puts the saved handler back.  A
\* call that times out without a move_done read since it wrote its command
\* leaves that command with the controller.
MoveToAsyncReturn(a) ==
    /\ mpc[a] = "wait"
    /\ currentPositionSteps' =
          IF mfut[a]
          THEN [currentPositionSteps EXCEPT ![a] = ReachedPosition(mtarget[a], zeroOffsetSteps[a])]
          ELSE currentPositionSteps
    /\ onMovementDone' = morig[a]
    /\ morig' = [b \in Axes |-> IF b = a THEN 0
                               ELSE IF morig[b] = AxisId(a) THEN -1 ELSE morig[b]]
    /\ ev' = [op |-> "move", axis |-> a, out |-> IF mfut[a] THEN "success" ELSE "timeout",
              answered |-> answered[a], steps |-> mtarget[a], offset |-> zeroOffsetSteps[a],
              wrote |-> IF mfut[a] THEN {} ELSE TimeoutCommands]
    /\ mpc' = [mpc EXCEPT ![a] = "idle"]
    /\ mfut' = [mfut EXCEPT ![a] = FALSE]
    /\ mtarget' = [mtarget EXCEPT ![a] = 0]
    /\ answered' = [answered EXCEPT ![a] = FALSE]
    /\ UNCHANGED <<engineVars, loopVars, axisVars, linkConnected, onCalibrationDone, inflight,
                   cameraConnected, readerAlive, onHomingDone, zeroOffsetSteps, replyVars>>
    /\ staleMoves' = IF ~mfut[a] /\ ~answered[a] THEN Unanswered(staleMoves) ELSE staleMoves
    /\ UNCHANGED <<calibVars, configVars>>

\* AxisController.set_zero: setzero is sent, the current position becomes the
\* zero offset and the position 0.
SetZero(a) ==
    /\ axisBuilt[a]
    /\ currentPositionSteps[a] <= MaxOffset
    /\ IF linkConnected
       THEN /\ zeroOffsetSteps' = [zeroOffsetSteps EXCEPT ![a] = currentPositionSteps[a]]
            /\ currentPositionSteps' = [currentPositionSteps EXCEPT ![a] = 0]
            /\ ev' = [op |-> "set_zero", axis |-> a, out |-> "sent"]
       ELSE /\ ev' = [op |-> "set_zero", axis |-> a, out |-> "raised"]
            /\ UNCHANGED posVars
    /\ UNCHANGED <<engineVars, loopVars, axisVars, linkVars, cameraConnected, readerAlive,
                   onHomingDone, callVars, replyVars>>
    /\ UNCHANGED restVars

\* The move_to_async calls that wait for move_done.
Waiting == {b \in Axes : mpc[b] = "wait" /\ ~mfut[b]}

\* An emergency stop that is refused while a move waits for its answer.
EstopOutcome_WaitsForMove == IF linkConnected /\ Waiting = {} THEN "sent" ELSE "raised"

\* send_command as emergency_stop uses it: the command lock is held only
\* while a command is written, so the write depends on the connection alone.
EstopOutcome == IF linkConnected THEN "sent" ELSE "raised"

\* AxisController.emergency_stop: estop is written to the link.
EmergencyStop(a) ==
    /\ axisBuilt[a]
    /\ ev' = [op |-> "estop", axis |-> a, out |-> EstopOutcome, waiting |-> Waiting]
    /\ UNCHANGED <<engineVars, loopVars, axisVars, linkVars, cameraConnected, protoVars>>
    /\ UNCHANGED restVars

\* The window of the UI that listens to the raw lines sets or clears
\* on_data_received.
SetDataListener(v) ==
    /\ v \in {0, 1}
    /\ onDataReceived # v
    /\ onDataReceived' = v
    /\ ev' = NoEv
    /\ UNCHANGED <<engineVars, loopVars, axisVars, linkVars, cameraConnected, readerAlive,
                   onHomingDone, posVars, callVars, rpc, rreq, rfut, rorig>>
    /\ UNCHANGED restVars

\* send_command_async, first part: the listener is saved and replaced by the
\* closure, then the command is sent; if the send raises, the finally block
\* restores the listener and the exception reaches the caller.
SendCommandAsync(req) ==
    /\ rpc = "idle"
    /\ IF linkConnected
       THEN /\ rorig' = onDataReceived
            /\ onDataReceived' = 2
            /\ rreq' = req
            /\ rfut' = "none"
            /\ rpc' = "wait"
            /\ ev' = NoEv
       ELSE /\ ev' = [op |-> "reply", req |-> req, out |-> "raised", before |-> onDataReceived]
            /\ UNCHANGED replyVars
    /\ UNCHANGED <<engineVars, loopVars, axisVars, linkVars, cameraConnected, readerAlive,
                   onHomingDone, posVars, callVars>>
    /\ UNCHANGED restVars

\* A send_command_async that leaves no listener behind.
RestoredListener_None(saved) == 0

\* The listener the finally block of send_command_async installs.
RestoredListener(saved) == saved

\* send_command_async, second part: wait_for returns with the line that
\* completed the future, or by timeout, which gives None.
SendCommandAsyncReturn ==
    /\ rpc = "wait"
    /\ onDataReceived' = RestoredListener(rorig)
    /\ ev' = [op |-> "reply", req |-> rreq,
              out |-> IF rfut = "none" THEN "no_response" ELSE rfut, before |-> rorig]
    /\ rpc' = "idle"
    /\ rreq' = "none"
    /\ rfut' = "none"
    /\ rorig' = 0
    /\ UNCHANGED <<engineVars, loopVars, axisVars, linkVars, cameraConnected, readerAlive,
                   onHomingDone, posVars, callVars>>
    /\ UNCHANGED restVars

\* ------------------------------------------------------ unit conversions
\* Largest length (mm) and angle (degrees) handed to the conversions.
MaxUnits == 2

Units == 0..MaxUnits

\* Python's round() of the quotient num/den, den > 0: to the nearest
\* integer, a tie to the even one.
RoundHalfEven(num, den) ==
    LET q == num \div den
        r == num % den
    IN  IF 2 * r < den THEN q
        ELSE IF 2 * r > den THEN q + 1
        ELSE IF q % 2 = 0 THEN q ELSE q + 1

\* StepperConfig.microstep_factor.
MicrostepFactor(c) == 2 ^ c.microstep

\* The stepper configuration the axis controller picked at construction.
StepperConfig(a) == steppers[a]

\* A linear conversion that does not look at the axis.
MmToSteps_NoAxisCheck(a, mm) ==
    [out |-> "steps",
     steps |-> RoundHalfEven(mm * StepperConfig(a).rotate_steps * MicrostepFactor(StepperConfig(a)),
                             StepperConfig(a).pitch)]

\* AxisController.mm_to_steps: raises on any axis but X, else
\* int(round(mm * steps_per_mm)) with steps_per_mm = rotate_steps *
\* microstep_factor / pitch.
MmToSteps(a, mm) ==
    IF a # "X"
    THEN [out |-> "mismatch"]
    ELSE [out |-> "steps",
          steps |-> RoundHalfEven(mm * StepperConfig(a).rotate_steps * MicrostepFactor(StepperConfig(a)),
                                  StepperConfig(a).pitch)]

\* AxisController.deg_to_steps: raises on any axis but THETA, else
\* int(round(degrees / 360 * steps_per_rev)).
DegToSteps(a, degrees) ==
    IF a # "THETA"
    THEN [out |-> "mismatch"]
    ELSE [out |-> "steps",
          steps |-> RoundHalfEven(degrees * StepperConfig(a).rotate_steps * MicrostepFactor(StepperConfig(a)),
                                  360)]

\* AxisController.get_current_position_mm, as a fraction <<num, den>> of a
\* millimetre: (current_position_steps - zero_offset_steps) / steps_per_mm
\* on the linear axis when steps_per_mm is positive, else 0.0.
GetCurrentPositionMm(a) ==
    IF a = "X" /\ StepperConfig(a).pitch > 0 /\ StepperConfig(a).rotate_steps > 0
    THEN <<(currentPositionSteps[a] - zeroOffsetSteps[a]) * StepperConfig(a).pitch,
           StepperConfig(a).rotate_steps * MicrostepFactor(StepperConfig(a))>>
    ELSE <<0, 1>>

\* Everything but the outcome of the step.
stateVars == <<machineVars, restVars>>

\* A call of mm_to_steps on the controller of axis a.
CallMmToSteps(a, mm) ==
    /\ axisBuilt[a]
    /\ ev' = [op |-> "convert", unit |-> "mm", axis |-> a, value |-> mm, res |-> MmToSteps(a, mm)]
    /\ UNCHANGED stateVars

\* A call of deg_to_steps on the controller of axis a.
CallDegToSteps(a, degrees) ==
    /\ axisBuilt[a]
    /\ ev' = [op |-> "convert", unit |-> "deg", axis |-> a, value |-> degrees,
              res |-> DegToSteps(a, degrees)]
    /\ UNCHANGED stateVars

\* The link by itself: connection, reader, and request-reply calls.
LinkNext ==
    \/ \E a \in Axes : ConstructAxis(a)
    \/ LinkConnect
    \/ LinkDisconnect
    \/ \E first \in SUBSET BothIds, retry \in SUBSET BothIds : Connect(first, retry)
    \/ \E l \in Lines : ReadLine(l)
    \/ ReadError
    \/ \E v \in {0, 1} : SetDataListener(v)
    \/ \E req \in Requests : SendCommandAsync(req)
    \/ SendCommandAsyncReturn

LinkSpec == Init /\ [][LinkNext]_vars

\* The axis controllers on a link: moves, zeroing, emergency stop and the
\* controller's lines.
AxisNext ==
    \/ \E a \in Axes : ConstructAxis(a)
    \/ LinkConnect
    \/ LinkDisconnect
    \/ \E l \in Lines : ReadLine(l)
    \/ \E a \in Axes, t \in Targets : MoveToAsyncSend(a, t)
    \/ \E a \in Axes : MoveToAsyncInstall(a)
    \/ \E a \in Axes : MoveToAsyncReturn(a)
    \/ \E a \in Axes : SetZero(a)
    \/ \E a \in Axes : EmergencyStop(a)

AxisSpec == Init /\ [][AxisNext]_vars

\* ======================================================================
\* Mechanical profiles from configuration
\* ======================================================================
\* The values tried for a stepper entry: micro-step power below, inside and
\* above 0..7, rotate steps and pitch zero and positive.  A key is given as
\* <<v>>, and as Absent where the entry or line does not carry it.
Absent == <<>>
MicrostepInputs == {Absent, <<-1>>, <<3>>, <<9>>}
RotateStepsInputs == {<<0>>, <<200>>}
PitchInputs == {<<0>>, <<8>>}

StepperInputs ==
    [microstep : MicrostepInputs, rotate_steps : RotateStepsInputs, pitch : PitchInputs]

\* The entry with the defaults of the class in place of the keys it lacks.
WithDefaults(g) ==
    [microstep |-> IF g.microstep = Absent THEN DefaultProfile.microstep ELSE g.microstep[1],
     rotate_steps |-> g.rotate_steps[1],
     pitch |-> g.pitch[1]]

\* The Field constraints of the pydantic StepperConfig: ge=0, le=7 on
\* microstep, ge=1 on rotate_steps, gt=0 on pitch.
FieldsValid(c) ==
    /\ c.microstep >= 0 /\ c.microstep <= 7
    /\ c.rotate_steps >= 1
    /\ c.pitch > 0

\* ConfigManager.load on a config.json with the stepper entries given:
\* AppConfig(**data) builds one pydantic StepperConfig per entry; a
\* constraint that fails raises ValidationError, a ValueError, and load
\* falls back to AppConfig.default() with its two default steppers.
LoadedSteppers(entries) ==
    IF \A a \in Axes : FieldsValid(WithDefaults(entries[a]))
    THEN [a \in Axes |-> WithDefaults(entries[a])]
    ELSE [a \in Axes |-> DefaultProfile]

\* The application loads its configuration before it constructs the axis
\* controllers, which keep the stepper entry they find at construction.
LoadConfig(entries) ==
    /\ \A a \in Axes : ~axisBuilt[a]
    /\ steppers' = LoadedSteppers(entries)
    /\ ev' = [op |-> "load_config",
              out |-> IF \A a \in Axes : FieldsValid(WithDefaults(entries[a]))
                      THEN "loaded" ELSE "default"]
    /\ UNCHANGED <<machineVars, calibVars, editorSteppers>>

\* __post_init__ of the dataclass StepperConfig: microstep clamped into
\* 0..7, non-positive rotate_steps and pitch replaced by the defaults.
PostInit(c) ==
    [microstep |-> IF c.microstep < 0 THEN 0 ELSE IF c.microstep > 7 THEN 7 ELSE c.microstep,
     rotate_steps |-> IF c.rotate_steps <= 0 THEN DefaultProfile.rotate_steps ELSE c.rotate_steps,
     pitch |-> IF c.pitch <= 0 THEN DefaultProfile.pitch ELSE c.pitch]

\* ConfigManager._parse_cfg_line: a StepperConfig is constructed with the
\* defaults, then each key of the line is assigned to its field.
ParseCfgLine(g) ==
    LET config == PostInit(DefaultProfile)
    IN  [microstep |-> IF g.microstep = Absent THEN config.microstep ELSE g.microstep[1],
         rotate_steps |-> g.rotate_steps[1],
         pitch |-> g.pitch[1]]

\* The line save_stepper_configs_to_cfg writes for a default StepperConfig.
DefaultLine ==
    [microstep |-> <<DefaultProfile.microstep>>, rotate_steps |-> <<DefaultProfile.rotate_steps>>,
     pitch |-> <<DefaultProfile.pitch>>]

\* The lines of a config.cfg: none, one or two.
CfgFiles == {<<>>} \cup {<<g>> : g \in StepperInputs}
               \cup {<<g, h>> : g \in {DefaultLine}, h \in StepperInputs}

\* ConfigManager.load_stepper_configs_from_cfg as the configuration editor
\* calls it: the first two lines are parsed, for X and Theta in this order,
\* and a missing line is made up by a default StepperConfig.
LoadStepperConfigsFromCfg(lines) ==
    /\ editorSteppers' =
          [i \in 1..2 |-> IF i <= Len(lines) THEN ParseCfgLine(lines[i])
                          ELSE PostInit(DefaultProfile)]
    /\ ev' = [op |-> "load_cfg", lines |-> Len(lines)]
    /\ UNCHANGED <<machineVars, calibVars, steppers>>

\* Start-up and the configuration editor: the configuration is loaded, the
\* axis controllers are constructed on it and convert units.
ConfigNext ==
    \/ \E entries \in [Axes -> StepperInputs] : LoadConfig(entries)
    \/ \E lines \in CfgFiles : LoadStepperConfigsFromCfg(lines)
    \/ \E a \in Axes : ConstructAxis(a)
    \/ LinkConnect
    \/ CalibrationDone
    \/ \E a \in Axes, mm \in Units : CallMmToSteps(a, mm)
    \/ \E a \in Axes, degrees \in Units : CallDegToSteps(a, degrees)

ConfigSpec == Init /\ [][ConfigNext]_vars

\* ======================================================================
\* The scan planner
\* ======================================================================
\* Largest radius tried, in whole millimetres, and largest radial and arc
\* step.
MaxRadius == 3
MaxStep == 2

RadiusInputs == -1..MaxRadius
StepInputs == 0..MaxStep
\* The sector angles tried, in whole degrees.
AngleInputs == {-90, 0, 45, 90, 180, 360, 450}

\* math.pi as the fraction PiNum / PiDen.
PiNum == 355
PiDen == 113

\* The checks at the top of generate_scan_points: each raises ValueError.
ParametersValid(radius_mm, radial_step_mm, arc_step_mm, angle_deg) ==
    /\ ~(radius_mm <= 0 \/ radial_step_mm <= 0 \/ arc_step_mm <= 0)
    /\ ~(angle_deg <= 0)

\* A planner that takes the sector angle as given.
CappedAngle_NoCap(angle_deg) == angle_deg

\* A sector angle above 360 becomes 360.
CappedAngle(angle_deg) == IF angle_deg > 360 THEN 360 ELSE angle_deg

\* num_points_on_circle: angle_deg / degrees(arc_step_mm / current_radius),
\* rounded, and 1 if that is not positive.
NumPointsOnCircle(current_radius, arc_step_mm, angle_deg) ==
    LET n == RoundHalfEven(angle_deg * current_radius * PiNum, 180 * arc_step_mm * PiDen)
    IN  IF n <= 0 THEN 1 ELSE n

\* An angle is a fraction <<numerator, denominator>> of degrees.
\* The step between the points of a ring as the arc step alone gives it.
CorrectedAngularStep_Uncorrected(angle_deg, n) == <<angle_deg, n>>

\* corrected_angular_step_deg: angle_deg / (n - 1), and 0 for a single point.
CorrectedAngularStep(angle_deg, n) == IF n > 1 THEN <<angle_deg, n - 1>> ELSE <<0, 1>>

\* normalize_angle_degrees: angle % 360.
NormalizeAngleDegrees(q) == <<q[1] % (360 * q[2]), q[2]>>

\* The points of one ring, in the order of the inner for loop.  x_mm and
\* y_mm are the radius times the cosine and sine of the angle emitted and are
\* not kept.
RingPoints(current_radius, arc_step_mm, angle_deg) ==
    LET n == NumPointsOnCircle(current_radius, arc_step_mm, angle_deg)
        step == CorrectedAngularStep(angle_deg, n)
    IN  [i \in 1..n |-> [radius_mm |-> current_radius,
                         angle_deg |-> NormalizeAngleDegrees(<<(i - 1) * step[1], step[2]>>)]]

\* A loop that goes one millimetre beyond the radius.
WithinRadius_OneMore(current_radius, radius_mm) == current_radius <= radius_mm + 1

\* The condition of the while loop.
WithinRadius(current_radius, radius_mm) == current_radius <= radius_mm

\* The while loop from current_radius on.
RECURSIVE Rings(_, _, _, _, _)
Rings(current_radius, radius_mm, radial_step_mm, arc_step_mm, angle_deg) ==
    IF WithinRadius(current_radius, radius_mm)
    THEN RingPoints(current_radius, arc_step_mm, angle_deg)
           \o Rings(current_radius + radial_step_mm, radius_mm, radial_step_mm, arc_step_mm,
                    angle_deg)
    ELSE <<>>

\* The point of the centre, appended first.
CentrePoint == [radius_mm |-> 0, angle_deg |-> <<0, 1>>]

\* ScanPlanner.generate_scan_points.
GenerateScanPoints(radius_mm, radial_step_mm, arc_step_mm, angle_deg) ==
    IF ~ParametersValid(radius_mm, radial_step_mm, arc_step_mm, angle_deg)
    THEN [out |-> "ValueError", points |-> <<>>]
    ELSE [out |-> "points",
          points |-> <<CentrePoint>> \o Rings(radial_step_mm, radius_mm, radial_step_mm,
                                              arc_step_mm, CappedAngle(angle_deg))]

\* A call of the planner.
PlanScan(radius_mm, radial_step_mm, arc_step_mm, angle_deg) ==
    /\ ev' = [op |-> "plan", radius_mm |-> radius_mm, radial_step_mm |-> radial_step_mm,
              arc_step_mm |-> arc_step_mm, angle_deg |-> angle_deg,
              res |-> GenerateScanPoints(radius_mm, radial_step_mm, arc_step_mm, angle_deg)]
    /\ UNCHANGED stateVars

PlanNext ==
    \E radius_mm \in RadiusInputs, radial_step_mm \in StepInputs, arc_step_mm \in StepInputs,
       angle_deg \in AngleInputs :
        PlanScan(radius_mm, radial_step_mm, arc_step_mm, angle_deg)

PlanSpec == Init /\ [][PlanNext]_vars

\* ======================================================================
\* The calibration service
\* ======================================================================
\* Most points collected in one session.
MaxCalPoints == 4
\* Pixels per millimetre of the camera the points are taken with.
PxPerMm == 10

\* The corners of a square on the sample, each with the pixel it is seen at.
Corners ==
    [k \in 1..4 |->
        LET w == << <<0, 0>>, <<1, 0>>, <<1, 1>>, <<0, 1>> >>[k]
        IN  [image_point |-> <<PxPerMm * w[1], PxPerMm * w[2]>>, world_point |-> w]]

\* The points offered to add_calibration_point: the next corner, or, for the
\* fourth point, the third once more.
NextPoints(points) ==
    {Corners[(Len(points) % 4) + 1]}
       \cup (IF Len(points) = 3 THEN {points[3]} ELSE {})

\* Four points of which no three are on a line: all corners of the square.
WellConditioned(points) == Cardinality({points[i] : i \in DOMAIN points}) >= 4

\* The arguments the transforms are called with.
TransformInputs == {<<0, 0>>, <<1, 90>>}

\* A service that takes the flag alone for being calibrated.
IsCalibrated_FlagOnly(points, flag, useH, matrix) ==
    flag \/ (useH /\ matrix # NoMatrix)

\* CalibrationService.is_calibrated.
IsCalibrated(points, flag, useH, matrix) ==
    LET has_points == Len(points) > 0
        is_calculated == flag \/ (useH /\ matrix # NoMatrix)
    IN  has_points /\ is_calculated

\* The coefficients of the linear model in one tuple.
Flat(lin) ==
    <<lin.scale_x[1], lin.scale_x[2], lin.scale_y[1], lin.scale_y[2],
      lin.offset_x[1], lin.offset_x[2], lin.offset_y[1], lin.offset_y[2]>>

\* world_to_image and image_to_world: None while not calibrated, else the
\* homography, or the linear model, applied to the argument.  The value is
\* kept as the coefficients applied and the argument they are applied to.
Transform(dir, points, flag, useH, matrix, lin, at) ==
    IF ~IsCalibrated(points, flag, useH, matrix)
    THEN NotCalibrated
    ELSE IF useH /\ matrix # NoMatrix
         THEN [out |-> dir, coeff |-> matrix, at |-> at]
         ELSE [out |-> dir, coeff |-> Flat(lin), at |-> at]

WorldToImage(at) ==
    Transform("pixel", calibrationPoints, svcIsCalibrated, useHomography, homographyMatrix,
              linear, at)

ImageToWorld(at) ==
    Transform("world", calibrationPoints, svcIsCalibrated, useHomography, homographyMatrix,
              linear, at)

\* A call of world_to_image or image_to_world.
CallWorldToImage(at) ==
    /\ ev' = [op |-> "world_to_image", res |-> WorldToImage(at), fitted |-> everFit]
    /\ UNCHANGED stateVars

CallImageToWorld(at) ==
    /\ ev' = [op |-> "image_to_world", res |-> ImageToWorld(at), fitted |-> everFit]
    /\ UNCHANGED stateVars

\* What the service answers now: is_calibrated() and both transforms.
Answers ==
    [calibrated |-> IsCalibrated(calibrationPoints, svcIsCalibrated, useHomography,
                                 homographyMatrix),
     w2i |-> [at \in TransformInputs |-> WorldToImage(at)],
     i2w |-> [at \in TransformInputs |-> ImageToWorld(at)]]

\* CalibrationService.start_calibration: raises while a session is in
\* progress, else opens one on a new, empty CameraCalibrationData.
StartCalibration ==
    /\ IF isCalibrating
       THEN /\ ev' = [op |-> "start_calibration", out |-> "raised"]
            /\ UNCHANGED calibVars
       ELSE /\ isCalibrating' = TRUE
            /\ calibrationPoints' = <<>>
            /\ atStart' = Answers
            /\ ev' = [op |-> "start_calibration", out |-> "started"]
            /\ UNCHANGED <<modelVars, calibrationFile, everFit>>
    /\ UNCHANGED <<machineVars, configVars>>

\* CalibrationService.add_calibration_point.
AddCalibrationPoint(point) ==
    /\ Len(calibrationPoints) < MaxCalPoints
    /\ IF ~isCalibrating
       THEN /\ ev' = [op |-> "add_calibration_point", out |-> "raised"]
            /\ UNCHANGED calibVars
       ELSE /\ calibrationPoints' = Append(calibrationPoints, point)
            /\ ev' = [op |-> "add_calibration_point", out |-> "added"]
            /\ UNCHANGED <<isCalibrating, modelVars, calibrationFile, atStart, everFit>>
    /\ UNCHANGED <<machineVars, configVars>>

\* The point counts calculate_transformation_simple and
\* calculate_transformation_homography ask for.
SimpleMinPoints == 3
HomographyMinPoints == 4

\* The sum of the k-th image co-ordinate over the points.
RECURSIVE SumImage(_, _)
SumImage(points, k) ==
    IF points = <<>> THEN 0
    ELSE points[1].image_point[k] + SumImage(Tail(points), k)

Abs(x) == IF x < 0 THEN -x ELSE x

\* The coefficients calculate_transformation_simple computes: the offsets
\* are the means of the image co-ordinates, the scales the pixel distance of
\* the first two points over their distance in each world co-ordinate, and
\* 1.0 where that distance is zero.
LinearFit(points) ==
    LET p1 == points[1]
        p2 == points[2]
        delta_img2 == (p1.image_point[1] - p2.image_point[1]) * (p1.image_point[1] - p2.image_point[1])
                       + (p1.image_point[2] - p2.image_point[2]) * (p1.image_point[2] - p2.image_point[2])
        delta_world_r == Abs(p1.world_point[1] - p2.world_point[1])
        delta_world_a == Abs(p1.world_point[2] - p2.world_point[2])
    IN  [scale_x |-> IF delta_world_r > 0 THEN <<delta_img2, delta_world_r * delta_world_r>>
                     ELSE <<1, 1>>,
         scale_y |-> IF delta_world_a > 0 THEN <<delta_img2, delta_world_a * delta_world_a>>
                     ELSE <<1, 1>>,
         offset_x |-> <<SumImage(points, 1), Len(points)>>,
         offset_y |-> <<SumImage(points, 2), Len(points)>>]

\* The matrix cv2.findHomography returns for points seen at PxPerMm pixels
\* per millimetre, row by row.
EstimatedMatrix == <<PxPerMm, 0, 0, 0, PxPerMm, 0, 0, 0, 1>>

\* calculate_transformation_simple returns True.
SimpleSucceeds(points) == ~(Len(points) < SimpleMinPoints)

\* calculate_transformation_homography returns True: enough points, and the
\* estimator found a matrix.
HomographySucceeds(points, found) == ~(Len(points) < HomographyMinPoints) /\ found

\* The estimator finds a matrix for well-conditioned points; for others it
\* may or may not.
EstimatorOutcomes(points) == IF WellConditioned(points) THEN {TRUE} ELSE {TRUE, FALSE}

\* A homography fit that leaves the linear coefficients as they are.
LinearAfterHomography_Kept == linear

\* The linear coefficients after a homography fit: reset.
LinearAfterHomography == DefaultLinear

\* The assignments of a linear fit that succeeded.
FitSimple ==
    /\ linear' = LinearFit(calibrationPoints)
    /\ svcIsCalibrated' = TRUE
    /\ useHomography' = FALSE
    /\ homographyMatrix' = NoMatrix
    /\ everFit' = TRUE

\* The assignments of a homography fit that succeeded.
FitHomography ==
    /\ homographyMatrix' = EstimatedMatrix
    /\ useHomography' = TRUE
    /\ svcIsCalibrated' = TRUE
    /\ linear' = LinearAfterHomography
    /\ everFit' = TRUE

\* A finish that asks for four points whichever the model.
MinPoints_AlwaysFour(use_homography) == IF use_homography THEN 4 ELSE 4

\* min_points of finish_calibration.
MinPoints(use_homography) == IF use_homography THEN 4 ELSE 3

\* CalibrationService.finish_calibration: raises outside a session; with too
\* few points it reports the error and leaves the session open; else it
\* closes the session and runs the fit.
FinishCalibration(use_homography, found) ==
    /\ found \in EstimatorOutcomes(calibrationPoints)
    /\ IF ~isCalibrating
       THEN /\ ev' = [op |-> "finish_calibration", out |-> "raised"]
            /\ UNCHANGED calibVars
       ELSE IF Len(calibrationPoints) < MinPoints(use_homography)
       THEN /\ ev' = [op |-> "finish_calibration", out |-> "failed", cause |-> "too_few",
                      use_homography |-> use_homography, count |-> Len(calibrationPoints),
                      well |-> WellConditioned(calibrationPoints)]
            /\ UNCHANGED calibVars
       ELSE /\ isCalibrating' = FALSE
            /\ LET success == IF use_homography
                              THEN HomographySucceeds(calibrationPoints, found)
                              ELSE SimpleSucceeds(calibrationPoints)
               IN  /\ IF success
                      THEN IF use_homography THEN FitHomography ELSE FitSimple
                      ELSE UNCHANGED <<modelVars, everFit>>
                   /\ ev' = [op |-> "finish_calibration",
                             out |-> IF success THEN "success" ELSE "failed",
                             cause |-> IF success THEN "none" ELSE "estimator",
                             use_homography |-> use_homography,
                             count |-> Len(calibrationPoints),
                             well |-> WellConditioned(calibrationPoints)]
            /\ UNCHANGED <<calibrationPoints, calibrationFile, atStart>>
    /\ UNCHANGED <<machineVars, configVars>>

\* CalibrationService.cancel_calibration: a session in progress is closed
\* and its points are cleared.
CancelCalibration ==
    /\ IF isCalibrating
       THEN /\ isCalibrating' = FALSE
            /\ calibrationPoints' = <<>>
            /\ ev' = [op |-> "cancel_calibration", ended |-> TRUE]
            /\ UNCHANGED <<modelVars, calibrationFile, atStart, everFit>>
       ELSE /\ ev' = [op |-> "cancel_calibration", ended |-> FALSE]
            /\ UNCHANGED calibVars
    /\ UNCHANGED <<machineVars, configVars>>

\* calculate_transformation_simple called by itself.
CalculateTransformationSimple ==
    /\ IF SimpleSucceeds(calibrationPoints)
       THEN /\ FitSimple
            /\ ev' = [op |-> "fit", model |-> "linear", out |-> "success"]
       ELSE /\ ev' = [op |-> "fit", model |-> "linear", out |-> "failed"]
            /\ UNCHANGED <<modelVars, everFit>>
    /\ UNCHANGED <<isCalibrating, calibrationPoints, calibrationFile, atStart>>
    /\ UNCHANGED <<machineVars, configVars>>

\* calculate_transformation_homography called by itself.
CalculateTransformationHomography(found) ==
    /\ found \in EstimatorOutcomes(calibrationPoints)
    /\ IF HomographySucceeds(calibrationPoints, found)
       THEN /\ FitHomography
            /\ ev' = [op |-> "fit", model |-> "homography", out |-> "success"]
       ELSE /\ ev' = [op |-> "fit", model |-> "homography", out |-> "failed"]
            /\ UNCHANGED <<modelVars, everFit>>
    /\ UNCHANGED <<isCalibrating, calibrationPoints, calibrationFile, atStart>>
    /\ UNCHANGED <<machineVars, configVars>>

\* CalibrationService.save_calibration: nothing is written without points;
\* else the points and the transformation go to the file, the matrix only
\* while the homography is in use.
SaveCalibration ==
    /\ IF calibrationPoints = <<>>
       THEN /\ ev' = [op |-> "save_calibration", out |-> FALSE]
            /\ UNCHANGED calibrationFile
       ELSE /\ calibrationFile' =
                  [exists |-> TRUE,
                   points |-> calibrationPoints,
                   is_calibrated |-> svcIsCalibrated,
                   use_homography |-> useHomography,
                   linear |-> linear,
                   homography_matrix |-> IF useHomography /\ homographyMatrix # NoMatrix
                                         THEN homographyMatrix ELSE NoMatrix]
            /\ ev' = [op |-> "save_calibration", out |-> TRUE]
    /\ UNCHANGED <<isCalibrating, calibrationPoints, modelVars, atStart, everFit>>
    /\ UNCHANGED <<machineVars, configVars>>

\* CalibrationService.load_calibration: FileNotFoundError without a file;
\* else the points are replaced by those of the file and the coefficients
\* reset and then restored from its transformation block.
LoadCalibration ==
    /\ IF ~calibrationFile.exists
       THEN /\ ev' = [op |-> "load_calibration", out |-> "raised"]
            /\ UNCHANGED <<calibrationPoints, modelVars>>
       ELSE /\ calibrationPoints' = calibrationFile.points
            /\ svcIsCalibrated' = calibrationFile.is_calibrated
            /\ useHomography' = calibrationFile.use_homography
            /\ linear' = calibrationFile.linear
            /\ homographyMatrix' =
                  IF calibrationFile.use_homography /\ calibrationFile.homography_matrix # NoMatrix
                  THEN calibrationFile.homography_matrix
                  ELSE NoMatrix
            /\ ev' = [op |-> "load_calibration", out |-> "loaded"]
    /\ UNCHANGED <<isCalibrating, calibrationFile, atStart, everFit>>
    /\ UNCHANGED <<machineVars, configVars>>

\* A calibration session as the calibration window drives it.
SessionNext ==
    \/ StartCalibration
    \/ \E point \in NextPoints(calibrationPoints) : AddCalibrationPoint(point)
    \/ \E use_homography \in BOOLEAN, found \in BOOLEAN : FinishCalibration(use_homography, found)
    \/ CancelCalibration
    \/ \E at \in TransformInputs : CallWorldToImage(at)
    \/ \E at \in TransformInputs : CallImageToWorld(at)

SessionSpec == Init /\ [][SessionNext]_vars

\* Fits and files: points are collected and fitted, by finish_calibration or
\* by the fit methods called by themselves, saved and loaded.
CalibNext ==
    \/ StartCalibration
    \/ \E point \in NextPoints(calibrationPoints) : AddCalibrationPoint(point)
    \/ \E use_homography \in BOOLEAN, found \in BOOLEAN : FinishCalibration(use_homography, found)
    \/ CalculateTransformationSimple
    \/ \E found \in BOOLEAN : CalculateTransformationHomography(found)
    \/ SaveCalibration
    \/ LoadCalibration

CalibSpec == Init /\ [][CalibNext]_vars

\* ------------------------------------------------- the move command's text
\* The first points of a planned list: the centre, then the point of the
\* first ring at angle 0, whose x_mm is the ring's radius (one radial step,
\* 1 mm here).
ScanPointAt(i) == IF i = 0 THEN [x_mm |-> 0, angle_deg |-> 0] ELSE [x_mm |-> 1, angle_deg |-> 0]

\* The coordinates of the command "move 0 <x_mm> <theta_deg>" that
\* move_to_async of axis a writes for its position argument.
MoveCommand(a, position) ==
    IF a = "X" THEN [x_mm |-> position, theta_deg |-> 0]
    ELSE [x_mm |-> 0, theta_deg |-> position]

\* ======================================================================
\* The link's inbound lines as text (src/hardware/stm32_controller.py)
\* ======================================================================
\* A line is a sequence of characters.  The controller's lines begin with
\* a prefix, in either case, and go on with up to MaxText characters.
MaxText == 3
ResponseLines ==
    LET TextChars == {" ", "a", "b"}
        Heads == {<<"i", "d", ":">>, <<"I", "D", ":">>, <<"f", "w", ":">>,
                  <<"e", "r", "r", "o", "r", ":">>, <<"E", "r", "r", "o", "r", ":">>,
                  <<"m", "o", "v", "e", "_", "d", "o", "n", "e">>, <<"o", "k">>}
        Texts == UNION {[1..n -> TextChars] : n \in 0..MaxText}
    IN  {h \o t : h \in Heads, t \in Texts}

\* str.strip(): the whitespace at both ends is removed.
Strip(s) ==
    LET RECURSIVE LStrip(_), RStrip(_)
        LStrip(t) == IF t # <<>> /\ Head(t) = " " THEN LStrip(Tail(t)) ELSE t
        RStrip(t) == IF t # <<>> /\ t[Len(t)] = " "
                     THEN RStrip(SubSeq(t, 1, Len(t) - 1)) ELSE t
    IN  RStrip(LStrip(s))

\* response[n:], the slice the handlers take.
SliceFrom(response, n) ==
    IF n >= Len(response) THEN <<>> ELSE SubSeq(response, n + 1, Len(response))

\* _command_handlers in the order of the dictionary, and _process_response's
\* search in it: the first prefix that the lower-cased line starts with.
HandlerFor(response) ==
    LET Lower(c) == CASE c = "I" -> "i" [] c = "D" -> "d" [] c = "E" -> "e" [] OTHER -> c
        low == [i \in 1..Len(response) |-> Lower(response[i])]
        StartsWith(p) == Len(p) <= Len(low) /\ \A i \in 1..Len(p) : low[i] = p[i]
    IN  IF StartsWith(<<"i", "d", ":">>) THEN "id:"
        ELSE IF StartsWith(<<"f", "w", ":">>) THEN "fw:"
        ELSE IF StartsWith(<<"e", "r", "r", "o", "r", ":">>) THEN "error:"
        ELSE IF StartsWith(<<"c", "a", "l", "i", "b", "r", "a", "t", "i", "o", "n",
                             "_", "d", "o", "n", "e">>) THEN "calibration_done"
        ELSE IF StartsWith(<<"h", "o", "m", "i", "n", "g", "_", "d", "o", "n", "e">>)
             THEN "homing_done"
        ELSE IF StartsWith(<<"m", "o", "v", "e", "_", "d", "o", "n", "e">>) THEN "move_done"
        ELSE "none"

\* What _handle_id and _handle_fw store and _handle_error reports:
\* response[4:].strip(), response[4:].strip() and response[7:].strip().
HandledText(response) ==
    CASE HandlerFor(response) = "id:" -> Strip(SliceFrom(response, 4))
      [] HandlerFor(response) = "fw:" -> Strip(SliceFrom(response, 4))
      [] HandlerFor(response) = "error:" -> Strip(SliceFrom(response, 7))
      [] OTHER -> <<>>

\* _process_response on one line.  The controller id, the firmware version
\* and the error message are kept in ev: nothing else in the model reads
\* them.
ProcessResponse(response) ==
    /\ ev' = [op |-> "response", line |-> response, handler |-> HandlerFor(response),
              text |-> HandledText(response)]
    /\ UNCHANGED stateVars

ParseNext == \E response \in ResponseLines : ProcessResponse(response)

ParseSpec == Init /\ [][ParseNext]_vars

\* ======================================================================
\* Claims
\* ======================================================================
IsPrefix(s, t) == Len(s) <= Len(t) /\ \A i \in 1..Len(s) : s[i] = t[i]

\* A move command of loop w is outstanding: written to the link, and the
\* move_to_async call that sent it has neither received move_done nor
\* returned.
Outstanding(w) == pc[w] \in {"x_sent", "x_wait", "t_sent", "t_wait"} /\ ~fut[w]

\* C1: at most one move command is outstanding at any time, whatever the
\* sequence of start, pause, resume and stop calls and controller events.
C1_SingleOutstandingMotion == Cardinality({w \in Loops : Outstanding(w)}) <= 1

\* C2: for every point the steps happen strictly in the order linear move
\* sent, linear move returned, rotary move sent, rotary move returned, frame
\* obtained, record written: what a loop has done for its point is always a
\* prefix of that sequence.
C2_PointStepOrder == \A w \in Loops : IsPrefix(tr[w], PointSteps)

C2_Witness == \E w \in Loops : tr[w] = PointSteps

\* C3: points are visited in emission order without pipelining: whenever a
\* loop is at point i (before, during or after its moves), exactly the
\* points 0..i-1 have been recorded or skipped.
C3_NoPipelining == \A w \in Loops : Active(w) => settled[w] = 0..(idx[w] - 1)

C3_Witness == \E w \in Loops : idx[w] = 1 /\ tr[w] = <<"x_send">> /\ settled[w] = {0}

\* C4: a stop() that takes effect leaves the engine neither running nor
\* paused and has invoked emergency_stop once on each axis, and the loop it
\* stopped leaves the sink closed when it ends.
C4_StopEstopsBothAxes ==
    /\ ev.op = "stop" =>
          /\ ~isRunning /\ ~isPaused
          /\ ev.estops["X"] = 1 /\ ev.estops["THETA"] = 1
    /\ (ev.op = "end" /\ ev.stopSeen # "no") => ~writer.open

\* C5: once stop() has returned, a loop it stopped sends no further move
\* command, obtains no further frame and writes no further record.
C5_StopIsImmediate ==
    [][\A w \in Loops :
          (stopSeen[w] # "no" /\ tr'[w] # tr[w] /\ tr'[w] # <<>>)
             => tr'[w][Len(tr'[w])] \in {"x_ret", "t_ret"}]_vars

\* C6: a loop that stop() hit in its pause poll while the engine was paused
\* begins no further point: it sends no first move command of a point.
C6_StopDuringPause ==
    [][\A w \in Loops : stopSeen[w] = "in_poll" => ~(tr[w] = <<>> /\ tr'[w] # <<>>)]_vars

\* C7: a start() called while an axis is not calibrated, the camera is not
\* connected or no sink is attached fails and changes nothing: flags, cursor,
\* total, sink and loops are as before and no callback is invoked.
PreconditionViolated ==
    \/ ~isCalibrated["X"]
    \/ ~isCalibrated["THETA"]
    \/ ~cameraConnected
    \/ ~writer.attached

C7_FailedStartChangesNothing ==
    [][(ev'.op = "start" /\ PreconditionViolated)
          => /\ ev'.out \in PreconditionFailures
             /\ ev'.notes = {}
             /\ UNCHANGED <<engineVars, started, pc, idx, npts>>]_vars

C7_Witness == ev.op = "start" /\ ev.out = "no_writer" /\ ~writer.attached /\ ~isRunning

\* C8: no capture or analysis failure aborts a scan: no loop ends in error
\* because of its frame request.
C8_CaptureFailureNeverAborts == ~(ev.op = "end" /\ ev.out = "error" /\ ev.cause = "frame")

\* C9: an undisturbed scan that ends finished has visited every point, and
\* the records in the sink are the points whose capture and analysis both
\* succeeded; with no frame at exactly one point that is total_points - 1.
C9_RecordsOfUndisturbedScan ==
    (ev.op = "end" /\ ev.out = "finished" /\ ev.clean)
       => /\ ev.visited = ev.n
          /\ ev.records = ev.n - ev.nofr - ev.statf

C9_Witness ==
    /\ ev.op = "end" /\ ev.out = "finished" /\ ev.clean
    /\ ev.n = 2 /\ ev.nofr = 1 /\ ev.statf = 0 /\ ev.records = 1

\* C10: a loop that ends by an exception leaves the engine not running and
\* the sink closed, surfaces the error, and has returned: it attempts no
\* further point.
C10_ExceptionEndsErrored ==
    (ev.op = "end" /\ ev.out = "error")
       => /\ ~isRunning
          /\ ~writer.open
          /\ "error" \in ev.notes
          /\ pc[ev.loop] = "done"

C10_Witness == ev.op = "end" /\ ev.out = "error" /\ ev.cause = "move" /\ ev.visited = 1

\* C11: pause() when the engine is not Running (idle, already paused, or after
\* a finish, stop or error) and resume() when it is not Paused change no
\* engine state and emit no paused or resumed event; otherwise they only
\* toggle the paused flag.
C11_PauseResumeOnlyToggle ==
    [][/\ (ev'.op = "pause" /\ ~(isRunning /\ ~isPaused))
            => (ev'.notes = {} /\ UNCHANGED <<engineVars, loopVars>>)
       /\ (ev'.op = "resume" /\ ~(isRunning /\ isPaused))
            => (ev'.notes = {} /\ UNCHANGED <<engineVars, loopVars>>)
       /\ ev'.op \in {"pause", "resume"}
            => UNCHANGED <<isRunning, currentPointIndex, totalPoints, writer, loopVars>>]_vars

\* a resume() with nothing to resume, after a scan has ended
C11_Witness ==
    /\ ev.op = "resume" /\ ev.notes = {}
    /\ ~isRunning /\ ~isPaused /\ started > 0

\* C12: no lost completion: a direct move_to call during which move_done was
\* read, after the call wrote its command and before it returned, returns
\* success.
C12_NoLostCompletion ==
    (ev.op = "move" /\ ev.out # "raised" /\ ev.answered) => ev.out = "success"

\* C13: a move_to that returns success has set the axis's position to the
\* target steps plus the zero offset; one that times out returns failure,
\* leaves is_calibrated, the zero offsets and the positions unchanged and
\* writes no command to the link.
C13_MoveOutcome ==
    [][\A a \in Axes :
          /\ (ev'.op = "move" /\ ev'.axis = a /\ ev'.out = "success")
                => /\ mfut[a]
                   /\ currentPositionSteps'[a] = mtarget[a] + zeroOffsetSteps[a]
          /\ (ev'.op = "move" /\ ev'.axis = a /\ ev'.out = "timeout")
                => /\ ~mfut[a]
                   /\ ev'.wrote = {}
                   /\ UNCHANGED <<isCalibrated, posVars>>]_vars

C13_Witness ==
    /\ ev.op = "move" /\ ev.out = "success" /\ ev.offset > 0
    /\ currentPositionSteps[ev.axis] = ev.steps + ev.offset

\* C14: connect() returns success exactly when the controller answers with
\* both an id: line and a fw: line on the first attempt or the retry, and a
\* failed connect() leaves the link not connected.
C14_Handshake ==
    (ev.op = "connect" /\ ev.out # "already")
       => /\ (ev.out = "ok") <=> (ev.first \cup ev.retry = BothIds)
          /\ ev.out = "failed" => ~linkConnected

\* C15: after calibration_done was read on a link on which the X and the
\* THETA axis controller were constructed, both report is_calibrated.
C15_CalibrationReachesBothAxes ==
    (ev.op = "line" /\ ev.line = "calibration_done" /\ EngineBuilt)
       => \A a \in Axes : isCalibrated[a]

\* C16: when homing_done:<axis> is read on a link shared by both axis
\* controllers, the named axis's position becomes 0 and the other axis's
\* position is unchanged.
HomingLine(n) == IF n = "X" THEN "homing_done:X" ELSE "homing_done:THETA"

C16_HomingZeroesNamedAxis ==
    [][\A n \in Axes :
          (ev'.op = "line" /\ ev'.line = HomingLine(n) /\ EngineBuilt)
             => /\ currentPositionSteps'[n] = 0
                /\ \A b \in Axes \ {n} : currentPositionSteps'[b] = currentPositionSteps[b]]_vars

\* C17: emergency_stop on a connected link writes estop whether or not a
\* move_to waits for move_done, and leaves the waiting call as it is.
C17_EstopAlwaysPermitted ==
    [][ev'.op = "estop"
          => /\ linkConnected => ev'.out = "sent"
             /\ UNCHANGED <<callVars, posVars, onMovementDone>>]_vars

C17_Witness == ev.op = "estop" /\ ev.out = "sent" /\ ev.waiting # {}

\* C18: a send_command_async call resolves with an inbound line only if the
\* line answers its request: id: for getid, fw: for getver.
Matches(req, l) == (req = "getid" /\ l = "id:") \/ (req = "getver" /\ l = "fw:")

C18_ReplyMatchesRequest ==
    (ev.op = "reply" /\ ev.out \notin {"raised", "no_response"}) => Matches(ev.req, ev.out)

\* C19: a send_command_async call during which no line was read returns the
\* no-response value, and whether it returns a line or no response, the
\* data listener is afterwards the one installed before the call.
C19_NoResponseAndListenerRestored ==
    [][(ev'.op = "reply" /\ ev'.out # "raised")
          => /\ rfut = "none" => ev'.out = "no_response"
             /\ onDataReceived' = rorig]_vars

C19_Witness ==
    /\ ev.op = "reply" /\ ev.out = "no_response"
    /\ ev.before = 1 /\ onDataReceived = 1

C21_WrongAxisConversionFails ==
    [][ev'.op = "convert" =>
         /\ UNCHANGED stateVars
         /\ IF (ev'.unit = "mm" /\ ev'.axis # "X") \/ (ev'.unit = "deg" /\ ev'.axis # "THETA")
            THEN ev'.res.out = "mismatch"
            ELSE ev'.res.out = "steps"]_vars

\* a linear conversion was asked of the calibrated rotary axis, and failed
C21_Witness ==
    /\ ev.op = "convert" /\ ev.unit = "mm" /\ ev.axis = "THETA"
    /\ ev.res.out = "mismatch"
    /\ isCalibrated["THETA"]

\* A mechanical profile within its limits.
ProfileInRange(c) ==
    /\ c.microstep \in 0..7
    /\ c.pitch > 0
    /\ c.rotate_steps > 0

\* C30: every mechanical profile obtained from configuration, from a JSON
\* stepper entry or from a line of config.cfg, has its micro-step power in
\* 0..7, a positive pitch and a positive number of full steps per
\* revolution; a micro-step value outside 0..7 is never stored as given.
C30_ProfilesInRange ==
    /\ \A a \in Axes : ProfileInRange(steppers[a])
    /\ \A i \in DOMAIN editorSteppers : ProfileInRange(editorSteppers[i])

\* The indices of the points of the ring of radius r in a planner result.
RingOf(points, r) == {i \in 2..Len(points) : points[i].radius_mm = r}
Lowest(S) == CHOOSE i \in S : \A j \in S : i <= j
Highest(S) == CHOOSE i \in S : \A j \in S : j <= i

\* C27: for a sector angle below 360, on every ring that carries more than
\* one point the first angle emitted is 0 and the last is the sector angle;
\* and every angle the planner emits is in [0, 360).
C27_RingCoversSector ==
    (ev.op = "plan" /\ ev.res.out = "points") =>
       LET points == ev.res.points
       IN  /\ \A i \in 1..Len(points) :
                /\ 0 <= points[i].angle_deg[1]
                /\ points[i].angle_deg[1] < 360 * points[i].angle_deg[2]
           /\ ev.angle_deg < 360 =>
                \A r \in 1..MaxRadius :
                    Cardinality(RingOf(points, r)) > 1 =>
                       /\ points[Lowest(RingOf(points, r))].angle_deg[1] = 0
                       /\ points[Highest(RingOf(points, r))].angle_deg[1]
                             = ev.angle_deg * points[Highest(RingOf(points, r))].angle_deg[2]

\* a sector of 90 degrees planned on two rings, the outer one with several
\* points
C27_Witness ==
    /\ ev.op = "plan" /\ ev.res.out = "points" /\ ev.angle_deg = 90
    /\ Cardinality(RingOf(ev.res.points, 1)) > 1
    /\ Cardinality(RingOf(ev.res.points, 2)) > 2

\* C28: for valid parameters the first point is the centre (0, 0, 0, 0), the
\* rings follow with radius radial_step, 2 * radial_step, ..., each ring's
\* points next to each other, and no radius exceeds radius_mm.
C28_RingsInOrder ==
    (ev.op = "plan" /\ ParametersValid(ev.radius_mm, ev.radial_step_mm, ev.arc_step_mm, ev.angle_deg)) =>
       LET points == ev.res.points
       IN  /\ ev.res.out = "points"
           /\ Len(points) >= 1
           /\ points[1] = CentrePoint
           /\ Len(points) >= 2 => points[2].radius_mm = ev.radial_step_mm
           /\ \A i \in 2..Len(points) : points[i].radius_mm <= ev.radius_mm
           /\ \A i \in 2..(Len(points) - 1) :
                 points[i + 1].radius_mm \in {points[i].radius_mm,
                                              points[i].radius_mm + ev.radial_step_mm}

\* three rings planned inside a radius the radial step divides
C28_Witness ==
    /\ ev.op = "plan" /\ ev.res.out = "points"
    /\ ev.radius_mm = MaxRadius /\ ev.radial_step_mm = 1
    /\ \A r \in 1..MaxRadius : RingOf(ev.res.points, r) # {}

\* C29: the planner fails, returning no points, when the radius, the radial
\* step or the arc step is not positive or the sector angle is not positive;
\* a sector angle above 360 gives the points that 360 gives.
C29_InvalidRejectedAngleCapped ==
    ev.op = "plan" =>
       /\ (ev.radius_mm <= 0 \/ ev.radial_step_mm <= 0 \/ ev.arc_step_mm <= 0 \/ ev.angle_deg <= 0)
             <=> (ev.res.out = "ValueError")
       /\ ev.res.out = "ValueError" => ev.res.points = <<>>
       /\ ev.angle_deg > 360 =>
             ev.res = GenerateScanPoints(ev.radius_mm, ev.radial_step_mm, ev.arc_step_mm, 360)

\* a sector above 360 degrees was planned on a ring with several points
C29_Witness ==
    /\ ev.op = "plan" /\ ev.angle_deg > 360 /\ ev.res.out = "points"
    /\ Cardinality(RingOf(ev.res.points, 2)) > 2

\* is_calibrated() in the current state.
IsCalibratedNow ==
    IsCalibrated(calibrationPoints, svcIsCalibrated, useHomography, homographyMatrix)

\* The homography is the model in use.
HomographyActive == useHomography /\ homographyMatrix # NoMatrix

\* C22: a calibration session that ends without a successful fit (too few
\* points at finish, the estimator failing, or cancel) leaves is_calibrated()
\* and the results of world_to_image and image_to_world as they were before
\* the session was started.
C22_FailedFitKeepsModel ==
    (\/ ev.op = "finish_calibration" /\ ev.out = "failed"
     \/ ev.op = "cancel_calibration" /\ ev.ended)
       => Answers = atStart

\* C23: in every state reached by start_calibration, add_calibration_point,
\* finish_calibration and cancel_calibration in which is_calibrated() is
\* true, the point set holds at least 3 points while the linear model is
\* active and at least 4 while the homography is.
C23_CalibratedHasEnoughPoints ==
    IsCalibratedNow =>
       Len(calibrationPoints) >= (IF HomographyActive THEN 4 ELSE 3)

\* C24: finish_calibration with the linear model fails with 2 points and
\* succeeds with 3; with the homography it fails with 3 points and succeeds
\* with 4 well-conditioned points.
C24_FitThresholds ==
    (ev.op = "finish_calibration" /\ ev.out # "raised") =>
       /\ (~ev.use_homography /\ ev.count = 2) => ev.out = "failed"
       /\ (~ev.use_homography /\ ev.count = 3) => ev.out = "success"
       /\ (ev.use_homography /\ ev.count = 3) => ev.out = "failed"
       /\ (ev.use_homography /\ ev.count = 4 /\ ev.well) => ev.out = "success"

\* a homography was fitted to the four corners
C24_Witness ==
    /\ ev.op = "finish_calibration" /\ ev.out = "success"
    /\ ev.use_homography /\ ev.count = 4 /\ ev.well
    /\ HomographyActive /\ ~isCalibrating

\* C25: is_calibrated() is true only if there is at least one calibration
\* point and a fit has succeeded; world_to_image and image_to_world called
\* before any fit has succeeded yield the not-calibrated outcome.
C25_CalibratedOnlyAfterFit ==
    /\ IsCalibratedNow => (Len(calibrationPoints) >= 1 /\ everFit)
    /\ (ev.op \in {"world_to_image", "image_to_world"} /\ ~ev.fitted) => ev.res = NotCalibrated

\* a transform was asked for with points collected and no fit yet
C25_Witness ==
    /\ ev.op = "image_to_world" /\ ~everFit
    /\ Len(calibrationPoints) >= 3
    /\ ev.res = NotCalibrated

\* C26: after any sequence of linear fits, homography fits and loads of
\* saved calibrations, either the homography is in use with its matrix
\* present and the linear scale and offset at their defaults, or the linear
\* model is in use and no matrix is stored.
C26_OneModelLive ==
    \/ useHomography /\ homographyMatrix # NoMatrix /\ linear = DefaultLinear
    \/ ~useHomography /\ homographyMatrix = NoMatrix

\* a saved homography was loaded over a linear fit
C26_Witness ==
    /\ ev.op = "load_calibration" /\ ev.out = "loaded"
    /\ HomographyActive
    /\ calibrationFile.use_homography
    /\ atStart.calibrated /\ atStart.w2i[<<0, 0>>].coeff # EstimatedMatrix

\* Two angles, as fractions, are the same angle.
SameAngle(q, r) == q[1] * r[2] = r[1] * q[2]

\* C40: the points the planner emits are pairwise distinct: for every valid
\* input, a sector of 360 degrees included, no two points of a ring have the
\* same normalized angle.
C40_PointsDistinct ==
    (ev.op = "plan" /\ ev.res.out = "points") =>
       \A i, j \in 1..Len(ev.res.points) :
          (i < j /\ ev.res.points[i].radius_mm = ev.res.points[j].radius_mm)
             => ~SameAngle(ev.res.points[i].angle_deg, ev.res.points[j].angle_deg)

\* The number of characters of the prefix a handled line was matched by.
PrefixLength(handler) == IF handler = "error:" THEN 6 ELSE 3

\* C31: for an inbound line id:<v>, fw:<v> or error:<msg> the controller id
\* or firmware version stored, or the error message reported, is the text
\* that follows the prefix with the whitespace around it trimmed: no
\* character of the value is lost.
C31_ValueFollowsPrefix ==
    (ev.op = "response" /\ ev.handler \in {"id:", "fw:", "error:"}) =>
       ev.text = Strip(SliceFrom(ev.line, PrefixLength(ev.handler)))

\* The last move command loop w wrote for the point it is at.
LastMoveCommand(w) ==
    LET sent == {k \in 1..Len(tr[w]) : tr[w][k] \in {"x_send", "t_send"}}
        last == CHOOSE k \in sent : \A j \in sent : j <= k
    IN  IF tr[w][last] = "x_send" THEN MoveCommand("X", ScanPointAt(idx[w]).x_mm)
        ELSE MoveCommand("THETA", ScanPointAt(idx[w]).angle_deg)

\* C32: when the frame of a point has been captured, the most recent
\* absolute position commanded for it has the point's x_mm as its linear
\* coordinate and the point's angle_deg as its rotary coordinate.
C32_CommandedPositionIsPoint ==
    \A w \in Loops :
       pc[w] = "analyze" =>
          /\ LastMoveCommand(w).x_mm = ScanPointAt(idx[w]).x_mm
          /\ LastMoveCommand(w).theta_deg = ScanPointAt(idx[w]).angle_deg

\* C33: a move_to call succeeds only through the move_done of its own
\* command: the move_done that completes the future of a waiting call is
\* never the answer to the command of an earlier call that timed out, on
\* the same or on the other axis.
C33_OwnMoveDoneOnly ==
    [][\A b \in Axes : (~mfut[b] /\ mfut'[b]) => staleMoves = 0]_vars

\* C34: the finished notification is emitted only on normal completion,
\* when the loop has visited every planned point: a scan ended by stop
\* emits the stopped notification and never the finished one.
C34_FinishedOnlyOnCompletion ==
    (ev.op = "end" /\ "finished" \in ev.notes) => (ev.visited = ev.n /\ ev.stopSeen = "no")

C36_TimeoutIsNotInspected ==
    [][\A w \in Loops :
          (pc[w] \in {"x_wait", "t_wait"} /\ ~fut[w] /\ pc'[w] # pc[w])
             => /\ pc'[w] = IF pc[w] = "x_wait" THEN "t_call" ELSE "delay"
                /\ idx'[w] = idx[w] /\ settled'[w] = settled[w]
                /\ isRunning' = isRunning /\ records' = records
                /\ ev'.op # "end"]_vars

\* The only scan made has ended finished and left a move command
\* unanswered: the move that wrote it timed out, and both records of the
\* two points were written.
C36_Witness ==
    /\ ev.op = "end" /\ ev.out = "finished" /\ ev.cause = "exhausted"
    /\ started = 1 /\ inflight = 1
    /\ ev.n = 2 /\ ev.records = 2

\* C37: the progress event (index, total) of a point is emitted after the
\* point has been processed: its record has been written or the point
\* has been skipped.
C37_ProgressAfterPoint ==
    ev.op = "progress" => ev.index \in ev.settled

\* C38: after set_zero on the linear axis get_current_position_mm reports
\* 0, and after a later successful move it reports the position commanded
\* (the commanded whole steps, as millimetres).
C38_ZeroThenPosition ==
    /\ (ev.op = "set_zero" /\ ev.axis = "X" /\ ev.out = "sent")
          => GetCurrentPositionMm("X")[1] = 0
    /\ (ev.op = "move" /\ ev.axis = "X" /\ ev.out = "success")
          => GetCurrentPositionMm("X")[1] = ev.steps * StepperConfig("X").pitch

\* C39: once the reader has stopped on a transport error the link does not
\* report itself connected: is_connected() is false, and the commands that
\* ask it first are rejected instead of written to the dead link.
C39_StoppedReaderNotConnected ==
    (ev.op = "reader_error" \/ ~readerAlive) => ~linkConnected

====
